---- MODULE Spec2Model ----
(***************************************************************************)
(* Falling-sand simulation (src/src/main.rs): the occupancy grid, the      *)
(* ordered grain list, the active region, and the three phases of a frame  *)
(* (spawn, physics update, drain), modelled step by step.                  *)
(*                                                                         *)
(* The program's configuration constants are scaled down so that the       *)
(* state space is finite and small; every formula below is written in      *)
(* terms of the constants, not of their values.                            *)
(***************************************************************************)
EXTENDS Integers, Sequences, FiniteSets

\* Bounds of the model: the width of the simulated area (1200 in the program)
\* and the number of grains alive at once.  The user does not click while
\* more than MaxGrains - TRIES_PER_FRAME grains are alive.
GridW == 4
MaxGrains == 4

\* main.rs:13-14; HEIGHT scaled down from 800.
WIDTH == GridW
HEIGHT == 3

\* main.rs:17-18, scaled down from 6 and 25.
SPAWN_RADIUS == 1
TRIES_PER_FRAME == 2

\* main.rs:20-22; DRAIN_HALF scaled down from 50.
DRAIN_X == WIDTH \div 2
DRAIN_Y == HEIGHT - 1
DRAIN_HALF == 1

\* Margin by which the recomputed active region is expanded (main.rs:127-130).
MARGIN == 2

VARIABLES
    grid,        \* grid[y][x]: occupancy flag of cell (x, y)
    grains,      \* the Vec<Grain>, 1-based here
    min_x, max_x, min_y, max_y,                  \* active region
    new_min_x, new_max_x, new_min_y, new_max_y,  \* accumulator of the physics pass
    pc,          \* position in the frame loop
    cx, cy,      \* spawn target of this frame
    tries,       \* spawn attempts left in this frame
    idx,         \* next grain of the physics pass (1-based; 0 = pass finished)
    space,       \* what is_key_down(Space) returned in the drain phase just run
    pre,         \* grains, grid and region as they were when the latest phase began
    drain_half   \* the drain half-width the program was built with

vars == <<grid, grains, min_x, max_x, min_y, max_y,
          new_min_x, new_max_x, new_min_y, new_max_y,
          pc, cx, cy, tries, idx, space, pre, drain_half>>

region == <<min_x, max_x, min_y, max_y>>
accum == <<new_min_x, new_max_x, new_min_y, new_max_y>>

Xs == 0 .. WIDTH - 1
Ys == 0 .. HEIGHT - 1

\* Variant: the clamp is missing.
Min_noclamp(a, b) == a

Min(a, b) == IF a < b THEN a ELSE b

\* usize::saturating_sub
SatSub(a, b) == IF a > b THEN a - b ELSE 0

\* Variant: the two coordinates stored the wrong way round.
Grain_swapped(x, y) == [x |-> y, y |-> x]

\* Grain { x, y }
Grain(x, y) == [x |-> x, y |-> y]

\* if v < lo { lo = v; }   and   if v > hi { hi = v; }
LowerTo(lo, v) == IF v < lo THEN v ELSE lo
RaiseTo(hi, v) == IF v > hi THEN v ELSE hi

in_bounds(x, y) == x >= 0 /\ y >= 0 /\ x < WIDTH /\ y < HEIGHT

\* grid[y][x] = v
GridSet(g, x, y, v) == [g EXCEPT ![y][x] = v]

Snapshot == [grains |-> grains, grid |-> grid,
             min_x |-> min_x, max_x |-> max_x, min_y |-> min_y, max_y |-> max_y]

\* The state main() sets up before its frame loop; the drain half-width is
\* whatever the program was built with.
Startup ==
    /\ grid = [y \in Ys |-> [x \in Xs |-> FALSE]]
    /\ grains = << >>
    /\ min_x = WIDTH /\ max_x = 0 /\ min_y = HEIGHT /\ max_y = 0
    /\ new_min_x = WIDTH /\ new_max_x = 0 /\ new_min_y = HEIGHT /\ new_max_y = 0
    /\ pc = "spawn"
    /\ cx = 0 /\ cy = 0 /\ tries = 0 /\ idx = 0
    /\ space = FALSE
    /\ pre = [grains |-> << >>, grid |-> [y \in Ys |-> [x \in Xs |-> FALSE]],
              min_x |-> WIDTH, max_x |-> 0, min_y |-> HEIGHT, max_y |-> 0]

\* The program as shipped.
Init == Startup /\ drain_half = DRAIN_HALF

\* The program built with any half-width from 0 to beyond the grid width.
InitConfig == Startup /\ drain_half \in 0 .. (WIDTH + 1)

(***************************************************************************)
(* 1. spawn                                                                *)
(***************************************************************************)

\* The left button is up, or the pointer is outside the window.
NoSpawn ==
    /\ pc = "spawn"
    /\ pc' = "physics"
    /\ pre' = Snapshot
    /\ space' = FALSE
    /\ UNCHANGED <<grid, grains, region, accum, cx, cy, tries, idx, drain_half>>

\* The left button is down with the pointer at (mx, my) inside the window.
SpawnBegin(mx, my) ==
    /\ pc = "spawn"
    /\ Len(grains) + TRIES_PER_FRAME <= MaxGrains
    /\ pc' = "trial"
    /\ cx' = mx /\ cy' = my
    /\ tries' = TRIES_PER_FRAME
    /\ pre' = Snapshot
    /\ space' = FALSE
    /\ UNCHANGED <<grid, grains, region, accum, idx, drain_half>>

\* Variant: the whole bounding square is accepted.
InDisc_square(dx, dy) == TRUE

\* Variant: the disc test rejects every offset.
InDisc_none(dx, dy) == FALSE

\* The offsets the rejection loop can leave it with.
InDisc(dx, dy) == ~(dx * dx + dy * dy > SPAWN_RADIUS * SPAWN_RADIUS)

Offsets == (0 - SPAWN_RADIUS) .. SPAWN_RADIUS

\* One turn of the rejection loop that draws an offset outside the disc:
\* `continue`, nothing is written.
SpawnReject(dx, dy) ==
    /\ pc = "trial"
    /\ ~InDisc(dx, dy)
    /\ UNCHANGED vars

\* Variant: the placement loop is left after its first trial.
SpawnTrial_once(dx, dy) ==
    /\ pc = "trial"
    /\ InDisc(dx, dy)
    /\ LET x == cx + dx
           y == cy + dy
       IN  IF in_bounds(x, y) /\ ~grid[y][x]
           THEN /\ grid' = GridSet(grid, x, y, TRUE)
                /\ grains' = Append(grains, Grain(x, y))
                /\ min_x' = LowerTo(min_x, x)
                /\ max_x' = RaiseTo(max_x, x)
                /\ min_y' = LowerTo(min_y, y)
                /\ max_y' = RaiseTo(max_y, y)
           ELSE UNCHANGED <<grid, grains, region>>
    /\ tries' = tries - 1
    /\ pc' = "physics" /\ cx' = 0 /\ cy' = 0
    /\ UNCHANGED <<accum, idx, space, pre, drain_half>>

\* One iteration of `for _ in 0..TRIES_PER_FRAME`, the rejection loop having
\* ended with the offset (dx, dy).
SpawnTrial(dx, dy) ==
    /\ pc = "trial"
    /\ InDisc(dx, dy)
    /\ LET x == cx + dx
           y == cy + dy
       IN  IF in_bounds(x, y) /\ ~grid[y][x]
           THEN /\ grid' = GridSet(grid, x, y, TRUE)
                /\ grains' = Append(grains, Grain(x, y))
                /\ min_x' = LowerTo(min_x, x)
                /\ max_x' = RaiseTo(max_x, x)
                /\ min_y' = LowerTo(min_y, y)
                /\ max_y' = RaiseTo(max_y, y)
           ELSE UNCHANGED <<grid, grains, region>>
    /\ tries' = tries - 1
    /\ IF tries = 1
       THEN pc' = "physics" /\ cx' = 0 /\ cy' = 0
       ELSE pc' = "trial" /\ UNCHANGED <<cx, cy>>
    /\ UNCHANGED <<accum, idx, space, pre, drain_half>>

(***************************************************************************)
(* 2. physics update                                                       *)
(***************************************************************************)

PhysicsBegin ==
    /\ pc = "physics"
    /\ new_min_x' = WIDTH /\ new_max_x' = 0
    /\ new_min_y' = HEIGHT /\ new_max_y' = 0
    /\ idx' = Len(grains)
    /\ pc' = "settle"
    /\ pre' = Snapshot
    /\ UNCHANGED <<grid, grains, region, cx, cy, tries, space, drain_half>>

\* Variant: down-right tried before down-left.
Targets_rightfirst(x, y) == << <<x, y + 1>>, <<x + 1, y + 1>>, <<x - 1, y + 1>> >>

\* Variant: the second and third targets are level with the grain.
Targets_level(x, y) == << <<x, y + 1>>, <<x - 1, y>>, <<x + 1, y>> >>

\* The three targets of a grain at (x, y), in the order they are tried.
Targets(x, y) == << <<x, y + 1>>, <<x - 1, y + 1>>, <<x + 1, y + 1>> >>

\* Variant: the occupancy test is missing.
Available_nogrid(g, t) == in_bounds(t[1], t[2])

Available(g, t) == in_bounds(t[1], t[2]) /\ ~g[t[2]][t[1]]

\* Index of the first target of (x, y) that is available in g, 0 if none.
FirstAvailable(g, x, y) ==
    LET ts == Targets(x, y)
    IN  IF Available(g, ts[1]) THEN 1
        ELSE IF Available(g, ts[2]) THEN 2
        ELSE IF Available(g, ts[3]) THEN 3
        ELSE 0

\* Variant: the vacated cell is not cleared.
MoveGrid_noclear(g, x, y, nx, ny) == GridSet(g, nx, ny, TRUE)

\* grid[y][x] = false; ...; grid[ny][nx] = true
MoveGrid(g, x, y, nx, ny) == GridSet(GridSet(g, x, y, FALSE), nx, ny, TRUE)

\* Variant: the region test is missing.
OutsideRegion_never(x, y) == FALSE

OutsideRegion(x, y) == x < min_x \/ x > max_x \/ y < min_y \/ y > max_y

\* The loop body for the grain at index i (main.rs:98-123).
SettleVisit(i) ==
    LET x == grains[i].x
        y == grains[i].y
        k == FirstAvailable(grid, x, y)
    IN  IF OutsideRegion(x, y) \/ k = 0
        THEN UNCHANGED <<grid, grains, accum>>
        ELSE LET nx == Targets(x, y)[k][1]
                 ny == Targets(x, y)[k][2]
             IN  /\ grid' = MoveGrid(grid, x, y, nx, ny)
                 /\ grains' = [grains EXCEPT ![i] = Grain(nx, ny)]
                 /\ new_min_x' = LowerTo(new_min_x, nx)
                 /\ new_max_x' = RaiseTo(new_max_x, nx)
                 /\ new_min_y' = LowerTo(new_min_y, ny)
                 /\ new_max_y' = RaiseTo(new_max_y, ny)

\* Variant: the pass runs oldest grain first.
SettleStep_forward ==
    /\ pc = "settle"
    /\ idx >= 1
    /\ SettleVisit(Len(grains) + 1 - idx)
    /\ idx' = idx - 1
    /\ UNCHANGED <<region, pc, cx, cy, tries, space, pre, drain_half>>

\* Variant: a grain that moved is visited again, so it falls until it rests.
SettleStep_repeat ==
    /\ pc = "settle"
    /\ idx >= 1
    /\ SettleVisit(idx)
    /\ idx' = IF grains' # grains THEN idx ELSE idx - 1
    /\ UNCHANGED <<region, pc, cx, cy, tries, space, pre, drain_half>>

\* One iteration of `for idx in (0..grains.len()).rev()`.
SettleStep ==
    /\ pc = "settle"
    /\ idx >= 1
    /\ SettleVisit(idx)
    /\ idx' = idx - 1
    /\ UNCHANGED <<region, pc, cx, cy, tries, space, pre, drain_half>>

\* Variant: the recomputed region is merged into the previous one.
SettleEnd_union ==
    /\ pc = "settle"
    /\ idx = 0
    /\ IF new_min_x <= new_max_x /\ new_min_y <= new_max_y
       THEN /\ min_x' = LowerTo(min_x, SatSub(new_min_x, MARGIN))
            /\ max_x' = RaiseTo(max_x, Min(new_max_x + MARGIN, WIDTH - 1))
            /\ min_y' = LowerTo(min_y, SatSub(new_min_y, MARGIN))
            /\ max_y' = RaiseTo(max_y, Min(new_max_y + MARGIN, HEIGHT - 1))
       ELSE UNCHANGED region
    /\ new_min_x' = WIDTH /\ new_max_x' = 0
    /\ new_min_y' = HEIGHT /\ new_max_y' = 0
    /\ pc' = "drain"
    /\ UNCHANGED <<grid, grains, cx, cy, tries, idx, space, pre, drain_half>>

\* Variant: the region is recomputed even when nothing moved.
SettleEnd_unguarded ==
    /\ pc = "settle"
    /\ idx = 0
    /\ min_x' = SatSub(new_min_x, MARGIN)
    /\ max_x' = Min(new_max_x + MARGIN, WIDTH - 1)
    /\ min_y' = SatSub(new_min_y, MARGIN)
    /\ max_y' = Min(new_max_y + MARGIN, HEIGHT - 1)
    /\ new_min_x' = WIDTH /\ new_max_x' = 0
    /\ new_min_y' = HEIGHT /\ new_max_y' = 0
    /\ pc' = "drain"
    /\ UNCHANGED <<grid, grains, cx, cy, tries, idx, space, pre, drain_half>>

\* The region recompute after the pass.
SettleEnd ==
    /\ pc = "settle"
    /\ idx = 0
    /\ IF new_min_x <= new_max_x /\ new_min_y <= new_max_y
       THEN /\ min_x' = SatSub(new_min_x, MARGIN)
            /\ max_x' = Min(new_max_x + MARGIN, WIDTH - 1)
            /\ min_y' = SatSub(new_min_y, MARGIN)
            /\ max_y' = Min(new_max_y + MARGIN, HEIGHT - 1)
       ELSE UNCHANGED region
    /\ new_min_x' = WIDTH /\ new_max_x' = 0
    /\ new_min_y' = HEIGHT /\ new_max_y' = 0
    /\ pc' = "drain"
    /\ UNCHANGED <<grid, grains, cx, cy, tries, idx, space, pre, drain_half>>

(***************************************************************************)
(* 3. drain                                                                *)
(***************************************************************************)

DrainStart == SatSub(DRAIN_X, drain_half)
DrainEnd == Min(DRAIN_X + drain_half, WIDTH - 1)

\* Variant: the span taken without its first and last cell.
Inside_strict(g) == g.y = DRAIN_Y /\ g.x > DrainStart /\ g.x < DrainEnd

\* Variant: the whole bottom row drains.
Inside_row(g) == g.y = DRAIN_Y

Inside(g) == g.y = DRAIN_Y /\ g.x >= DrainStart /\ g.x <= DrainEnd

\* Vec::retain(|g| !inside): the kept grains, in order.
RECURSIVE Retain(_)
Retain(s) ==
    IF s = << >> THEN << >>
    ELSE IF Inside(Head(s)) THEN Retain(Tail(s))
         ELSE <<Head(s)>> \o Retain(Tail(s))

\* Variant: the closure leaves the region alone.
RetainRegion_none(s, r) == r

\* The region after the retain closure has visited the grains of s in order.
RECURSIVE RetainRegion(_, _)
RetainRegion(s, r) ==
    IF s = << >> THEN r
    ELSE LET g == Head(s)
             r2 == IF Inside(g)
                   THEN << LowerTo(r[1], g.x), RaiseTo(r[2], g.x),
                           LowerTo(r[3], g.y), RaiseTo(r[4], g.y) >>
                   ELSE r
         IN  RetainRegion(Tail(s), r2)

\* grid[DRAIN_Y][x] = false for x in start..=end
DrainGrid(g) ==
    [y \in Ys |-> [x \in Xs |->
        IF y = DRAIN_Y /\ x >= DrainStart /\ x <= DrainEnd THEN FALSE ELSE g[y][x]]]

Drain(key) ==
    /\ pc = "drain"
    /\ IF key
       THEN /\ grid' = DrainGrid(grid)
            /\ grains' = Retain(grains)
            /\ LET r == RetainRegion(grains, region)
               IN  /\ min_x' = r[1] /\ max_x' = r[2]
                   /\ min_y' = r[3] /\ max_y' = r[4]
       ELSE UNCHANGED <<grid, grains, region>>
    /\ space' = key
    /\ pre' = Snapshot
    /\ pc' = "draw"
    /\ UNCHANGED <<accum, cx, cy, tries, idx, drain_half>>

(***************************************************************************)
(* 4. clear and draw                                                       *)
(***************************************************************************)

\* The pixel buffer is cleared, every grain of the list is drawn into it and
\* the window is updated; the simulation state is only read.
Draw ==
    /\ pc = "draw"
    /\ pc' = "spawn"
    /\ UNCHANGED <<grid, grains, region, accum, cx, cy, tries, idx, space, pre,
                   drain_half>>

Next ==
    \/ NoSpawn
    \/ \E mx \in Xs, my \in Ys : SpawnBegin(mx, my)
    \/ \E dx \in Offsets, dy \in Offsets : SpawnReject(dx, dy)
    \/ \E dx \in Offsets, dy \in Offsets : SpawnTrial(dx, dy)
    \/ PhysicsBegin
    \/ SettleStep
    \/ SettleEnd
    \/ \E key \in BOOLEAN : Drain(key)
    \/ Draw

Spec == Init /\ [][Next]_vars

\* The frame loop keeps running while the window is open, and the random
\* source does not draw offsets outside the disc for ever.
FairSpec == Spec /\ WF_vars(Next)

\* The program built with an arbitrary drain half-width.
SpecConfig == InitConfig /\ [][Next]_vars

(***************************************************************************)
(* Properties                                                              *)
(***************************************************************************)

\* Indices of the grains of s at cell (x, y).
At(s, x, y) == {i \in DOMAIN s : s[i].x = x /\ s[i].y = y}

\* C1: in every state (hence after every phase of every frame) a cell is
\* marked occupied in the grid exactly when exactly one grain lies on it, and
\* no two grains share a cell.
C1_GridConsistent ==
    /\ \A y \in Ys : \A x \in Xs : grid[y][x] <=> Cardinality(At(grains, x, y)) = 1
    /\ \A i, j \in DOMAIN grains : i # j => grains[i] # grains[j]

\* All three phases have acted: a frame that ended with a drain which removed
\* a grain and left others.
C1_Witness ==
    /\ pc = "spawn" /\ space
    /\ Len(grains) >= 2
    /\ Len(pre.grains) > Len(grains)

\* C2: every grain lies inside [0, WIDTH) x [0, HEIGHT) in every state.
C2_InBounds ==
    \A i \in DOMAIN grains :
        /\ 0 <= grains[i].x /\ grains[i].x < WIDTH
        /\ 0 <= grains[i].y /\ grains[i].y < HEIGHT

\* A grain has just fallen into the bottom-left corner, where two of its
\* three targets are out of bounds, and another was spawned on the right edge.
C2_Witness ==
    /\ pc = "drain"
    /\ \E i \in DOMAIN grains :
           /\ grains[i] = Grain(0, HEIGHT - 1)
           /\ pre.grains[i] # grains[i]
    /\ \E i \in DOMAIN grains : grains[i].x = WIDTH - 1

\* The physics pass is about to start: the spawn phase is over and no grain
\* has been visited yet.
SettleStart == pc = "physics" \/ (pc = "settle" /\ idx = Len(grains))

CanMove(i) == FirstAvailable(grid, grains[i].x, grains[i].y) # 0

\* C3: at the start of every physics pass, every grain that has an available
\* target lies inside the active region.
C3_MovableInsideRegion ==
    SettleStart =>
        \A i \in DOMAIN grains :
            CanMove(i) => ~OutsideRegion(grains[i].x, grains[i].y)

\* The drain span as the specification words it: the cells of the bottom row
\* within DRAIN_HALF of the horizontal centre, as far as the grid reaches.
InSpan(x) ==
    /\ x \in Xs
    /\ x - (WIDTH \div 2) <= DRAIN_HALF
    /\ (WIDTH \div 2) - x <= DRAIN_HALF

OnDrain(g) == g.y = HEIGHT - 1 /\ InSpan(g.x)

OffDrain(g) == ~OnDrain(g)

\* The drain phase has just run with the key down / at all.
AfterDrain == pc = "spawn"
AfterActiveDrain == pc = "spawn" /\ space

\* C4: after a drain phase with the drain active, no grain lies on the bottom
\* row within the drain span and every cell of the span reads unoccupied.
C4_DrainComplete ==
    AfterActiveDrain =>
        /\ \A i \in DOMAIN grains : ~OnDrain(grains[i])
        /\ \A x \in Xs : InSpan(x) => ~grid[HEIGHT - 1][x]

\* An active drain has just removed at least two grains, at the two ends of
\* the span, and left another.
C4_Witness ==
    /\ AfterActiveDrain
    /\ \E i, j \in DOMAIN pre.grains :
           /\ OnDrain(pre.grains[i]) /\ ~InSpan(pre.grains[i].x - 1)
           /\ OnDrain(pre.grains[j]) /\ ~InSpan(pre.grains[j].x + 1)
    /\ grains # << >>

\* C10: the drain phase leaves every grain that is off the bottom row or
\* outside the span in the list, at its coordinate and in the same relative
\* order, with its cell still occupied; with the drain inactive the phase
\* changes nothing.
C10_DrainFrame ==
    AfterDrain =>
        /\ SelectSeq(grains, OffDrain) = SelectSeq(pre.grains, OffDrain)
        /\ \A i \in DOMAIN pre.grains :
               OffDrain(pre.grains[i]) => grid[pre.grains[i].y][pre.grains[i].x]
        /\ ~space =>
               /\ grains = pre.grains
               /\ grid = pre.grid
               /\ region = <<pre.min_x, pre.max_x, pre.min_y, pre.max_y>>

\* An active drain has removed a grain while a grain on the bottom row outside
\* the span and a grain above the bottom row stayed.
C10_Witness ==
    /\ AfterActiveDrain
    /\ Len(grains) < Len(pre.grains)
    /\ \E i, j \in DOMAIN grains :
           /\ grains[i].y = HEIGHT - 1 /\ ~InSpan(grains[i].x)
           /\ grains[j].y < HEIGHT - 1

\* The drain key was up in a frame that had a grain on the span.
C10_WitnessInactive ==
    /\ AfterDrain /\ ~space
    /\ \E i \in DOMAIN grains : OnDrain(grains[i])

\* Cell (x, y) is in bounds and unoccupied in g.
FreeIn(g, x, y) == x \in Xs /\ y \in Ys /\ ~g[y][x]

Cell(x, y) == [x |-> x, y |-> y]

\* Where a grain at (x, y) goes when it is examined against g: down, else
\* down-left, else down-right, else nowhere.
Choice(g, x, y) ==
    IF FreeIn(g, x, y + 1) THEN Cell(x, y + 1)
    ELSE IF FreeIn(g, x - 1, y + 1) THEN Cell(x - 1, y + 1)
    ELSE IF FreeIn(g, x + 1, y + 1) THEN Cell(x + 1, y + 1)
    ELSE Cell(x, y)

\* Cell c lies in the region [r.min_x, r.max_x] x [r.min_y, r.max_y].
InRegionOf(r, c) ==
    /\ r.min_x <= c.x /\ c.x <= r.max_x
    /\ r.min_y <= c.y /\ c.y <= r.max_y

Here == [min_x |-> min_x, max_x |-> max_x, min_y |-> min_y, max_y |-> max_y]

\* C6: a grain inside the active region, when its turn comes in the physics
\* pass, moves to the first of down, down-left, down-right that is in bounds
\* and unoccupied in the grid at that moment, and stays if there is none.
C6_FallPriority ==
    [][(pc = "settle" /\ idx >= 1 /\ InRegionOf(Here, grains[idx]))
        => grains'[idx] = Choice(grid, grains[idx].x, grains[idx].y)]_vars

\* The grain just examined went down-right, its down and down-left targets
\* being in bounds and occupied.
C6_Witness ==
    /\ pc = "settle" /\ idx < Len(grains)
    /\ LET o == pre.grains[idx + 1]
       IN  /\ grains[idx + 1] = Cell(o.x + 1, o.y + 1)
           /\ o.x >= 1
           /\ grid[o.y + 1][o.x]
           /\ grid[o.y + 1][o.x - 1]

\* The region as it was when the latest phase began.
PreRegion == [min_x |-> pre.min_x, max_x |-> pre.max_x,
              min_y |-> pre.min_y, max_y |-> pre.max_y]

\* Where grain i would go if it were examined against the grid of the start
\* of the pass.
PreChoice(i) == Choice(pre.grid, pre.grains[i].x, pre.grains[i].y)

\* Grains i and j contend at the start of the pass: both are in the region and
\* would go to the same free cell.
Contend(i, j) ==
    /\ InRegionOf(PreRegion, pre.grains[i])
    /\ InRegionOf(PreRegion, pre.grains[j])
    /\ PreChoice(i) # pre.grains[i]
    /\ PreChoice(i) = PreChoice(j)

\* Each target of grain j is, at the start of the pass, out of bounds or held
\* by a grain older than j.
BlockedByOlder(j) ==
    LET x == pre.grains[j].x
        y == pre.grains[j].y
    IN  \A d \in {-1, 0, 1} :
            (x + d \in Xs /\ y + 1 \in Ys)
                => \E i \in 1 .. (j - 1) : pre.grains[i] = Cell(x + d, y + 1)

\* C7: the physics pass visits the grains newest first, each against the grid
\* as the grains visited before it left it.  While grains idx+1.. have had
\* their turn, grains 1..idx are where they were at the start of the pass; of
\* two contending grains the newer takes the cell when no grain newer still
\* has moved; and a grain all of whose targets are held by older grains stays,
\* whatever those grains do later in the pass.
C7_ReverseOrder ==
    /\ pc = "settle" =>
           /\ Len(grains) = Len(pre.grains)
           /\ \A i \in 1 .. idx : grains[i] = pre.grains[i]
    /\ pc = "drain" =>
           /\ \A i, j \in DOMAIN pre.grains :
                  (/\ i < j
                   /\ Contend(i, j)
                   /\ \A k \in (j + 1) .. Len(grains) : grains[k] = pre.grains[k])
                      => (grains[j] = PreChoice(j) /\ grains[i] # PreChoice(j))
           /\ \A j \in DOMAIN pre.grains :
                  (InRegionOf(PreRegion, pre.grains[j]) /\ BlockedByOlder(j))
                      => grains[j] = pre.grains[j]

\* Two grains contended for a cell in the pass just finished, and the newer
\* one holds it.
C7_Witness ==
    /\ pc = "drain"
    /\ \E i, j \in DOMAIN pre.grains :
           i < j /\ Contend(i, j) /\ grains[j] = PreChoice(j)

\* In the pass just finished an older grain entered the cell a newer grain
\* had left.
C7_WitnessVacated ==
    /\ pc = "drain"
    /\ \E i, j \in DOMAIN pre.grains :
           /\ i < j
           /\ grains[j] # pre.grains[j]
           /\ grains[i] = pre.grains[j]

\* In the pass just finished a grain stayed put under a grain older than it
\* which then moved away.
C7_WitnessBlocked ==
    /\ pc = "drain"
    /\ \E i, j \in DOMAIN pre.grains :
           /\ i < j
           /\ InRegionOf(PreRegion, pre.grains[j]) /\ BlockedByOlder(j)
           /\ pre.grains[i].y = pre.grains[j].y + 1
           /\ grains[i] # pre.grains[i]
           /\ grains[j] = pre.grains[j]

\* No grain of the list s has a free cell in g among its three targets.
SettledIn(s, g) == \A i \in DOMAIN s : Choice(g, s[i].x, s[i].y) = s[i]

\* C8: a physics pass started on a grid where no grain has an in-bounds
\* unoccupied target leaves the grain list and the grid as they were, at
\* every point of the pass; the next pass then starts from the same grid.
C8_SettledStaysSettled ==
    (pc \in {"settle", "drain"} /\ SettledIn(pre.grains, pre.grid))
        => (grains = pre.grains /\ grid = pre.grid)

\* A pass has just run over a settled pile of three or more grains, one of
\* which is above the bottom row and inside the region.
C8_Witness ==
    /\ pc = "drain"
    /\ SettledIn(pre.grains, pre.grid)
    /\ Len(grains) >= 3
    /\ \E i \in DOMAIN grains :
           grains[i].y < HEIGHT - 1 /\ InRegionOf(PreRegion, grains[i])

\* Cell c is within SPAWN_RADIUS of the spawn target (cx, cy).
InSpawnDisc(c) ==
    (c.x - cx) * (c.x - cx) + (c.y - cy) * (c.y - cy) <= SPAWN_RADIUS * SPAWN_RADIUS

\* C9: a spawn invocation adds at most TRIES_PER_FRAME grains; each attempt
\* either appends one grain, at a cell of the disc around the target that is
\* in bounds and was unoccupied, or is dropped and leaves the grid, the grain
\* list and the active region as they were; either way the attempt is used up.
C9_SpawnTrials ==
    /\ [](pc \in {"trial", "physics"}
            => Len(grains) - Len(pre.grains) <= TRIES_PER_FRAME - tries)
    /\ [][pc = "trial" =>
            /\ tries' = tries - 1
            /\ \/ grains' = grains /\ grid' = grid /\ region' = region
               \/ \E x \in Xs, y \in Ys :
                      /\ grains' = Append(grains, Cell(x, y))
                      /\ ~grid[y][x]
                      /\ InSpawnDisc(Cell(x, y))]_vars

\* A spawn invocation aimed at the top-left corner of a grid that already
\* held a grain has ended with one grain added and one attempt dropped.
C9_Witness ==
    /\ pc = "physics"
    /\ pre.grains # << >>
    /\ Len(grains) = Len(pre.grains) + 1
    /\ grains[Len(grains)].x = 0 /\ grains[Len(grains)].y = 0

\* The physics pass of this frame has just finished.
AfterSettle == pc = "drain"

\* Indices of the grains that moved in the pass just finished.
Moved == {i \in DOMAIN grains : grains[i] # pre.grains[i]}

MinOf(S) == CHOOSE m \in S : \A n \in S : m <= n
MaxOf(S) == CHOOSE m \in S : \A n \in S : m >= n

\* v lowered by d but not below 0; v raised by d but not above hi.
DownBy(v, d) == MaxOf({v - d, 0})
UpBy(v, d, hi) == MinOf({v + d, hi})

\* C11: when at least one grain moved in a physics pass, the active region
\* after the pass is the bounding box of the new coordinates of the grains
\* that moved, expanded by 2 cells each way and clamped to the grid.
C11_RegionFromMoved ==
    (AfterSettle /\ Moved # {}) =>
        /\ min_x = DownBy(MinOf({grains[i].x : i \in Moved}), 2)
        /\ max_x = UpBy(MaxOf({grains[i].x : i \in Moved}), 2, WIDTH - 1)
        /\ min_y = DownBy(MinOf({grains[i].y : i \in Moved}), 2)
        /\ max_y = UpBy(MaxOf({grains[i].y : i \in Moved}), 2, HEIGHT - 1)

\* A pass in which one grain moved and another did not has ended with a
\* region that differs from the one before and leaves out a grain at rest.
C11_Witness ==
    /\ AfterSettle
    /\ Moved # {}
    /\ Here # PreRegion
    /\ \E i \in DOMAIN grains : i \notin Moved /\ ~InRegionOf(Here, grains[i])

\* C12: when no grain moved in a physics pass, the active region after the
\* pass is the region before it.
C12_RegionKept ==
    (AfterSettle /\ Moved = {}) => Here = PreRegion

\* A pass over grains at rest has ended, the region being a box that a
\* collapse to the empty region would have changed.
C12_Witness ==
    /\ AfterSettle
    /\ Moved = {}
    /\ grains # << >>
    /\ min_x <= max_x /\ min_y <= max_y

\* C15: a grain outside the active region as it stands at the start of a
\* physics pass keeps its coordinate throughout the pass, whether or not one
\* of its targets is available, and the region does not change while the pass
\* visits the grains.
C15_OutsideStays ==
    /\ pc = "settle" => Here = PreRegion
    /\ pc \in {"settle", "drain"} =>
           \A i \in DOMAIN pre.grains :
               ~InRegionOf(PreRegion, pre.grains[i]) => grains[i] = pre.grains[i]

\* A pass has ended in which a grain outside the region had a free target at
\* the start, and still has it.
C15_Witness ==
    /\ AfterSettle
    /\ \E i \in DOMAIN pre.grains :
           /\ ~InRegionOf(PreRegion, pre.grains[i])
           /\ PreChoice(i) # pre.grains[i]
           /\ Choice(grid, grains[i].x, grains[i].y) # grains[i]

\* C16: during and after a physics pass every grain is where it was at the
\* start of the pass or one row lower and at most one column aside; the pass
\* keeps the number and the order of the grains.
C16_OneCellPerPass ==
    pc \in {"settle", "drain"} =>
        /\ Len(grains) = Len(pre.grains)
        /\ \A i \in DOMAIN grains :
               \/ grains[i] = pre.grains[i]
               \/ /\ grains[i].y = pre.grains[i].y + 1
                  /\ grains[i].x - pre.grains[i].x \in {-1, 0, 1}

\* A pass has ended in which one grain went straight down, one went aside,
\* one stayed, and the grain that went down still has room below it.
C16_Witness ==
    /\ AfterSettle
    /\ \E i, j, k \in DOMAIN grains :
           /\ grains[i] = Cell(pre.grains[i].x, pre.grains[i].y + 1)
           /\ FreeIn(grid, grains[i].x, grains[i].y + 1)
           /\ grains[j].x # pre.grains[j].x
           /\ grains[k] = pre.grains[k]

\* C17 as stated: the drain phase leaves the active region as it was, whether
\* or not grains were removed.
C17_DrainKeepsRegion ==
    AfterDrain => Here = PreRegion

\* The grains the drain phase just run has removed.
Removed ==
    IF space THEN {pre.grains[i] : i \in {j \in DOMAIN pre.grains : OnDrain(pre.grains[j])}}
    ELSE {}

\* C17 as amended: the drain phase changes the active region only by growing
\* it, without margin, to cover the coordinates of the grains it removed; with
\* nothing removed the region is as it was.
C17_DrainGrowsRegion ==
    AfterDrain =>
        /\ min_x = MinOf({pre.min_x} \cup {g.x : g \in Removed})
        /\ max_x = MaxOf({pre.max_x} \cup {g.x : g \in Removed})
        /\ min_y = MinOf({pre.min_y} \cup {g.y : g \in Removed})
        /\ max_y = MaxOf({pre.max_y} \cup {g.y : g \in Removed})

\* An active drain has removed a grain that lay outside the region, and the
\* region has grown to its column.
C17_Witness ==
    /\ AfterActiveDrain
    /\ \E g \in Removed : ~InRegionOf(PreRegion, g) /\ InRegionOf(Here, g)
    /\ Here # PreRegion

\* The region is as it was after construction (main.rs:40-43).
Sentinel == min_x = WIDTH /\ max_x = 0 /\ min_y = HEIGHT /\ max_y = 0

\* The region is a box inside the grid.
WellFormed ==
    /\ 0 <= min_x /\ min_x <= max_x /\ max_x <= WIDTH - 1
    /\ 0 <= min_y /\ min_y <= max_y /\ max_y <= HEIGHT - 1

\* C20: the active region is always the initial empty region or a box inside
\* the grid; it is the empty region only with no grain in the list, and once
\* it has become a box it never is the empty region again.
C20_RegionShape ==
    /\ [](Sentinel \/ WellFormed)
    /\ [](Sentinel => grains = << >>)
    /\ [][~Sentinel => ~Sentinel']_vars

\* The region touches the right and the bottom edge of the grid after a pass
\* that moved a grain, and the list has been emptied by the drain since.
C20_Witness ==
    /\ WellFormed
    /\ max_x = WIDTH - 1 /\ max_y = HEIGHT - 1
    /\ grains = << >> /\ pre.grains # << >>

\* The order in which control passes from one part of a frame to the next.
PhaseSteps ==
    {<<"spawn", "trial">>, <<"spawn", "physics">>, <<"trial", "physics">>,
     <<"physics", "settle">>, <<"settle", "drain">>, <<"drain", "draw">>,
     <<"draw", "spawn">>}

InSpawnPhase == pc \in {"spawn", "trial"}
InSettlePhase == pc \in {"physics", "settle"}
InDrainPhase == pc = "drain"
InOutputStage == pc = "draw"

\* C14: in every frame the phases run in the order spawn, settle, drain, then
\* the output stage: control only passes along that order; the spawn phase
\* is left only when all its trials are done and the settle phase only when
\* every grain has been visited; grains are added only in the spawn phase,
\* moved only in the settle phase and removed only in the drain phase; and
\* the output stage, entered only from the completed drain, writes nothing.
C14_PhaseOrder ==
    [][ /\ pc' # pc => <<pc, pc'>> \in PhaseSteps
        /\ (pc = "trial" /\ pc' # "trial") => tries' = 0
        /\ (pc = "settle" /\ pc' # "settle") => idx = 0
        /\ Len(grains') > Len(grains) => InSpawnPhase
        /\ Len(grains') < Len(grains) => InDrainPhase
        /\ (Len(grains') = Len(grains) /\ grains' # grains) => InSettlePhase
        /\ pc' = "draw" => InDrainPhase \/ InOutputStage
        /\ InOutputStage => UNCHANGED <<grid, grains, region>>
      ]_vars

\* The output stage is about to read a frame in which the drain removed
\* grains and left others.
C14_Witness ==
    InOutputStage /\ space /\ Len(grains) < Len(pre.grains) /\ grains # << >>

\* C18: under fair draws every spawn attempt ends: from each attempt still
\* to be made the rejection loop leads to the attempt having been made; a
\* frame with the button held starts with TRIES_PER_FRAME attempts to make,
\* makes them one at a time, and goes on to the settle phase exactly when
\* none is left.
C18_SpawnTerminates ==
    /\ \A n \in 1 .. TRIES_PER_FRAME :
           (pc = "trial" /\ tries = n) ~> (tries = n - 1)
    /\ (pc = "trial") ~> (pc = "physics")
    /\ [][ /\ (pc = "spawn" /\ pc' = "trial") => tries' = TRIES_PER_FRAME
           /\ pc = "trial" =>
                 /\ tries' = tries - 1
                 /\ (pc' = "physics") = (tries' = 0)
                 /\ (pc' = "trial") = (tries' > 0)
         ]_vars

\* The settle phase is about to start after a frame whose attempts all
\* placed a grain.
C18_Witness ==
    /\ pc = "physics"
    /\ tries = 0
    /\ Len(grains) = Len(pre.grains) + TRIES_PER_FRAME
    /\ pre.grains # << >>

\* A step that takes input: the button starts a spawn, or the drain runs with
\* the key down.
SpawnInput == pc = "spawn" /\ pc' = "trial"
DrainInput == pc = "drain" /\ space'
NoInput == ~SpawnInput /\ ~DrainInput

Malformed == WIDTH = 0 \/ HEIGHT = 0 \/ drain_half > WIDTH

\* C13: a program built with a malformed configuration never leaves its
\* starting position: no spawn, settle or drain phase runs.
C13_MalformedRejected == Malformed => (pc = "spawn" /\ pre = Snapshot)

\* What the program does instead: the span is clamped to the whole bottom
\* row and the drain removes grains.
C13_WitnessClamped ==
    /\ Malformed
    /\ AfterActiveDrain
    /\ DrainStart = 0 /\ DrainEnd = WIDTH - 1
    /\ Len(grains) < Len(pre.grains)

====
